---- MODULE Spec2Model ----
(***************************************************************************)
(* Model of src/inventory_system.py: the in-memory repository              *)
(* InventoryManager (products, customers, orders) with the entity methods  *)
(* of Product and Order and the read-only queries of SalesAnalytics.       *)
(*                                                                         *)
(* Conventions.                                                            *)
(*  - A Python method that may raise is an operator returning a record     *)
(*    with a field `raised`; the state it leaves behind is in the other    *)
(*    fields, so a partially executed call is visible.                     *)
(*  - An optional argument is a sequence: <<>> is None, <<v>> is v.        *)
(*  - A dict is kept in insertion order.  `orders` is the sequence of the  *)
(*    dict's values (each value carries its key, order_id); `products` and *)
(*    `customers` are functions from key to value, their iteration order   *)
(*    plays no part in what is modelled here.                              *)
(*  - Prices are integers (minor units); a discount truncates.             *)
(*  - datetime.now() is a logical clock that ticks at every order stored.  *)
(*  - `result` records the last call: its name, whether it raised and the  *)
(*    value it returned.                                                   *)
(*  - Fields that no modelled operation reads (Product.name and            *)
(*    created_at, Customer.name, email, phone, address) are left out.      *)
(*  - Stock is capped at MaxStock and the number of orders at MaxOrders in *)
(*    the guards of the actions.                                           *)
(***************************************************************************)
EXTENDS Integers, Sequences, FiniteSets, TLC

\* ------------------------------------------------------------------ bounds
MaxStock == 2
MaxOrders == 2
MaxItems == 2
MaxQty == 1
MaxPrice == 2

ProductIds == {"P1", "P2"}
CustomerIds == {"C1", "C2"}
Categories == {"Books", "Electronics"}
StockValues == 0..MaxStock
Prices == 1..MaxPrice
Quantities == (-1)..MaxQty
Deltas == {-2, -1, 1}
Percentages == {-1, 0, 50, 100, 101}
StatusInputs == {"pending", "confirmed", "shipped", "delivered", "cancelled", "refunded"}

VARIABLES products, customers, orders, result
vars == <<products, customers, orders, result>>

None == <<>>
Some(v) == <<v>>

Range(s) == {s[i] : i \in DOMAIN s}

\* ------------------------------------------------------------------ Product
Product(product_id, price, category, stock_quantity) ==
    [product_id |-> product_id, price |-> price, category |-> category,
     stock_quantity |-> stock_quantity]

update_stock_unguarded(self, quantity) ==
    [raised |-> FALSE,
     self |-> [self EXCEPT !.stock_quantity = @ + quantity],
     value |-> Some(self.stock_quantity + quantity)]

update_stock_off_by_one(self, quantity) ==
    IF self.stock_quantity + quantity <= 0
    THEN [raised |-> TRUE, self |-> self, value |-> None]
    ELSE [raised |-> FALSE,
          self |-> [self EXCEPT !.stock_quantity = @ + quantity],
          value |-> Some(self.stock_quantity + quantity)]

update_stock(self, quantity) ==
    IF self.stock_quantity + quantity < 0
    THEN [raised |-> TRUE, self |-> self, value |-> None]
    ELSE [raised |-> FALSE,
          self |-> [self EXCEPT !.stock_quantity = @ + quantity],
          value |-> Some(self.stock_quantity + quantity)]

apply_discount(self, percentage) ==
    IF percentage < 0 \/ percentage > 100
    THEN [raised |-> TRUE, self |-> self, value |-> None]
    ELSE LET price == (self.price * (100 - percentage)) \div 100
         IN [raised |-> FALSE,
             self |-> [self EXCEPT !.price = price],
             value |-> Some(price)]

\* ---------------------------------------------------------------- OrderItem
OrderItem(product_id, quantity, unit_price) ==
    [product_id |-> product_id, quantity |-> quantity, unit_price |-> unit_price]

get_total_price_live(item) ==
    item.quantity * (IF item.product_id \in DOMAIN products
                     THEN products[item.product_id].price
                     ELSE item.unit_price)

get_total_price(item) == item.quantity * item.unit_price

\* ----------------------------------------------------------------- Customer
Customer(customer_id) == [customer_id |-> customer_id]

\* -------------------------------------------------------------------- Order
Order(order_id, customer, items, now) ==
    [order_id |-> order_id, customer |-> customer, items |-> items,
     created_at |-> now, status |-> "pending"]

RECURSIVE SumTotals(_)
SumTotals(items) ==
    IF items = <<>> THEN 0
    ELSE get_total_price(Head(items)) + SumTotals(Tail(items))

calculate_total(order) == SumTotals(order.items)

valid_statuses == <<"pending", "confirmed", "shipped", "delivered", "cancelled">>

update_status_unchecked(self, new_status) ==
    [raised |-> FALSE, self |-> [self EXCEPT !.status = new_status]]

update_status(self, new_status) ==
    IF new_status \notin Range(valid_statuses)
    THEN [raised |-> TRUE, self |-> self]
    ELSE [raised |-> FALSE, self |-> [self EXCEPT !.status = new_status]]

\* --------------------------------------------------------- InventoryManager
add_product(prods, product) ==
    IF product.product_id \in DOMAIN prods
    THEN [raised |-> TRUE, products |-> prods]
    ELSE [raised |-> FALSE,
          products |-> [p \in DOMAIN prods \cup {product.product_id} |->
                          IF p = product.product_id THEN product ELSE prods[p]]]

get_product(prods, product_id) ==
    IF product_id \in DOMAIN prods THEN Some(prods[product_id]) ELSE None

update_product_stock(prods, product_id, quantity_change) ==
    LET product == get_product(prods, product_id)
    IN IF product = None
       THEN [raised |-> TRUE, products |-> prods, value |-> None]
       ELSE LET r == update_stock(product[1], quantity_change)
            IN [raised |-> r.raised,
                products |-> [prods EXCEPT ![product_id] = r.self],
                value |-> r.value]

add_customer(custs, customer) ==
    [c \in DOMAIN custs \cup {customer.customer_id} |->
        IF c = customer.customer_id THEN customer ELSE custs[c]]

\* f"ORD-{n:06d}": the decimal digits of n, zero-padded on the left to 6.
DigitChars == <<"0", "1", "2", "3", "4", "5", "6", "7", "8", "9">>

RECURSIVE Decimal(_)
Decimal(n) ==
    IF n < 10 THEN <<DigitChars[n + 1]>>
    ELSE Decimal(n \div 10) \o <<DigitChars[(n % 10) + 1]>>

RECURSIVE ZeroPad(_, _)
ZeroPad(digits, width) ==
    IF Len(digits) >= width THEN digits ELSE ZeroPad(<<"0">> \o digits, width)

FormatOrderIdFromZero(n) == <<"O", "R", "D", "-">> \o ZeroPad(Decimal(n - 1), 6)

FormatOrderId(n) == <<"O", "R", "D", "-">> \o ZeroPad(Decimal(n), 6)

\* self.orders[order_id] = order on an insertion-ordered dict.
DictSet(ords, order) ==
    IF \E i \in DOMAIN ords : ords[i].order_id = order.order_id
    THEN [i \in DOMAIN ords |->
            IF ords[i].order_id = order.order_id THEN order ELSE ords[i]]
    ELSE Append(ords, order)

\* The validation loop of create_order: one OrderItem per line, or the first
\* line that raises.
RECURSIVE build_order_items(_, _)
build_order_items(prods, items_data) ==
    IF items_data = <<>> THEN [raised |-> FALSE, order_items |-> <<>>]
    ELSE LET item_data == Head(items_data)
             product == get_product(prods, item_data.product_id)
         IN IF product = None
            THEN [raised |-> TRUE, order_items |-> <<>>]
            ELSE IF product[1].stock_quantity < item_data.quantity
            THEN [raised |-> TRUE, order_items |-> <<>>]
            ELSE LET rest == build_order_items(prods, Tail(items_data))
                 IN IF rest.raised THEN rest
                    ELSE [raised |-> FALSE,
                          order_items |->
                            <<OrderItem(product[1].product_id, item_data.quantity,
                                        product[1].price)>> \o rest.order_items]

\* The stock loop of create_order: stops at the first update that raises,
\* keeping the updates already made.
RECURSIVE decrement_stock(_, _)
decrement_stock(prods, order_items) ==
    IF order_items = <<>> THEN [raised |-> FALSE, products |-> prods]
    ELSE LET item == Head(order_items)
             r == update_product_stock(prods, item.product_id, -item.quantity)
         IN IF r.raised THEN [raised |-> TRUE, products |-> prods]
            ELSE decrement_stock(r.products, Tail(order_items))

create_order(customer_id, items_data) ==
    IF customer_id \notin DOMAIN customers
    THEN [raised |-> TRUE, products |-> products, orders |-> orders, value |-> None]
    ELSE LET b == build_order_items(products, items_data)
         IN IF b.raised
            THEN [raised |-> TRUE, products |-> products, orders |-> orders,
                  value |-> None]
            ELSE LET order_id == FormatOrderId(Len(orders) + 1)
                     order == Order(order_id, customers[customer_id], b.order_items,
                                    Len(orders) + 1)
                     d == decrement_stock(products, b.order_items)
                 IN [raised |-> d.raised, products |-> d.products,
                     orders |-> DictSet(orders, order),
                     value |-> IF d.raised THEN None ELSE Some(order_id)]

\* Python truthiness of an optional argument: None, 0 and "" are falsy.
TruthyNumber(opt) == opt # None /\ opt[1] # 0
TruthyString(opt) == opt # None /\ opt[1] # ""

search_products(category, min_price, max_price) ==
    {product \in Range(products) :
        /\ ~(TruthyString(category) /\ product.category # category[1])
        /\ ~(TruthyNumber(min_price) /\ product.price < min_price[1])
        /\ ~(TruthyNumber(max_price) /\ product.price > max_price[1])}

\* ----------------------------------------------------------- SalesAnalytics
RevenueStatuses == {"confirmed", "shipped", "delivered"}

RECURSIVE revenue_loop(_, _, _, _)
revenue_loop(ords, start_date, end_date, statuses) ==
    IF ords = <<>> THEN 0
    ELSE LET order == Head(ords)
             rest == revenue_loop(Tail(ords), start_date, end_date, statuses)
         IN IF start_date # None /\ order.created_at < start_date[1] THEN rest
            ELSE IF end_date # None /\ order.created_at > end_date[1] THEN rest
            ELSE IF order.status \in statuses THEN calculate_total(order) + rest
            ELSE rest

calculate_revenue_with_pending(start_date, end_date) ==
    revenue_loop(orders, start_date, end_date, RevenueStatuses \cup {"pending"})

calculate_revenue(start_date, end_date) ==
    revenue_loop(orders, start_date, end_date, RevenueStatuses)

RECURSIVE SumSpent(_)
SumSpent(ords) ==
    IF ords = <<>> THEN 0
    ELSE (IF Head(ords).status # "cancelled" THEN calculate_total(Head(ords)) ELSE 0)
         + SumSpent(Tail(ords))

get_customer_analytics(customer_id) ==
    IF customer_id \notin DOMAIN customers THEN None
    ELSE LET customer_orders ==
                 SelectSeq(orders, LAMBDA o : o.customer.customer_id = customer_id)
             total_spent == SumSpent(customer_orders)
             order_count == Len(customer_orders)
         IN Some([total_orders |-> order_count,
                  total_spent |-> total_spent,
                  average_order_value |->
                      IF order_count > 0 THEN total_spent \div order_count ELSE 0])

\* ------------------------------------------------------------------ actions
Result(op, raised, value) == [op |-> op, raised |-> raised, value |-> value]

Init ==
    /\ products = <<>>
    /\ customers = <<>>
    /\ orders = <<>>
    /\ result = Result("__init__", FALSE, None)

StockWithinBound(prods) == \A p \in DOMAIN prods : prods[p].stock_quantity <= MaxStock

AddProduct(product) ==
    LET r == add_product(products, product)
    IN /\ products' = r.products
       /\ result' = Result("add_product", r.raised, None)
       /\ UNCHANGED <<customers, orders>>

AddCustomer(customer) ==
    /\ customers' = add_customer(customers, customer)
    /\ result' = Result("add_customer", FALSE, None)
    /\ UNCHANGED <<products, orders>>

UpdateStock(product_id, quantity) ==
    /\ product_id \in DOMAIN products
    /\ LET r == update_stock(products[product_id], quantity)
       IN /\ r.self.stock_quantity <= MaxStock
          /\ products' = [products EXCEPT ![product_id] = r.self]
          /\ result' = Result("update_stock", r.raised, r.value)
    /\ UNCHANGED <<customers, orders>>

UpdateProductStock(product_id, quantity_change) ==
    LET r == update_product_stock(products, product_id, quantity_change)
    IN /\ StockWithinBound(r.products)
       /\ products' = r.products
       /\ result' = Result("update_product_stock", r.raised, r.value)
       /\ UNCHANGED <<customers, orders>>

ApplyDiscount(product_id, percentage) ==
    /\ product_id \in DOMAIN products
    /\ LET r == apply_discount(products[product_id], percentage)
       IN /\ products' = [products EXCEPT ![product_id] = r.self]
          /\ result' = Result("apply_discount", r.raised, r.value)
    /\ UNCHANGED <<customers, orders>>

CreateOrder(customer_id, items_data) ==
    /\ Len(orders) < MaxOrders
    /\ LET r == create_order(customer_id, items_data)
       IN /\ StockWithinBound(r.products)
          /\ products' = r.products
          /\ orders' = r.orders
          /\ result' = Result("create_order", r.raised, r.value)
    /\ UNCHANGED customers

UpdateStatus(i, new_status) ==
    /\ i \in DOMAIN orders
    /\ LET r == update_status(orders[i], new_status)
       IN /\ orders' = [orders EXCEPT ![i] = r.self]
          /\ result' = Result("update_status", r.raised, None)
    /\ UNCHANGED <<products, customers>>

ItemData(quantities) == [product_id : ProductIds, quantity : quantities]
ItemLists(quantities) == UNION {[1..n -> ItemData(quantities)] : n \in 0..MaxItems}

\* Stock keeping: every operation that touches stock_quantity, with order
\* lines of any quantity (negative and zero included) and repeated products.
NextStock ==
    \/ \E p \in ProductIds, s \in StockValues :
          AddProduct(Product(p, MaxPrice, "Books", s))
    \/ AddCustomer(Customer("C1"))
    \/ \E p \in ProductIds, q \in Deltas : UpdateStock(p, q)
    \/ \E p \in ProductIds, q \in Deltas : UpdateProductStock(p, q)
    \/ \E items \in ItemLists(Quantities) : CreateOrder("C1", items)

SpecStock == Init /\ [][NextStock]_vars

\* Order life cycle: orders of two customers over priced products, and
\* their status changes.
NextOrders ==
    \/ \E p \in ProductIds, pr \in Prices :
          AddProduct(Product(p, pr, "Books", MaxStock))
    \/ \E c \in CustomerIds : AddCustomer(Customer(c))
    \/ \E c \in CustomerIds, items \in ItemLists(1..MaxQty) : CreateOrder(c, items)
    \/ \E i \in 1..MaxOrders, s \in StatusInputs : UpdateStatus(i, s)

SpecOrders == Init /\ [][NextOrders]_vars

\* Pricing: products of several prices, discounts, and orders placed before
\* and after them.
NextPrice ==
    \/ \E p \in ProductIds, pr \in Prices :
          AddProduct(Product(p, pr, "Books", MaxStock))
    \/ AddCustomer(Customer("C1"))
    \/ \E p \in ProductIds, pct \in Percentages : ApplyDiscount(p, pct)
    \/ \E p \in ProductIds, q \in Deltas : UpdateStock(p, q)
    \/ \E items \in ItemLists(1..MaxQty) : CreateOrder("C1", items)

SpecPrice == Init /\ [][NextPrice]_vars

\* Catalogue: products of several prices, categories and stock levels, for
\* the queries over products.
NextSearch ==
    \/ \E p \in ProductIds, pr \in Prices, c \in Categories, s \in StockValues :
          AddProduct(Product(p, pr, c, s))
    \/ \E p \in ProductIds, pct \in Percentages : ApplyDiscount(p, pct)
    \/ \E p \in ProductIds, q \in Deltas : UpdateProductStock(p, q)

SpecSearch == Init /\ [][NextSearch]_vars

\* ------------------------------------------------------------------- claims
RECURSIVE SumFn(_)
SumFn(f) ==
    IF DOMAIN f = {} THEN 0
    ELSE LET x == CHOOSE y \in DOMAIN f : TRUE
         IN f[x] + SumFn([y \in DOMAIN f \ {x} |-> f[y]])

LineTotals(order) ==
    [j \in DOMAIN order.items |-> order.items[j].quantity * order.items[j].unit_price]

\* C1: a create_order call that raises leaves the repository as it was: no
\* product's stock_quantity has changed and no order has been added.
C1_FailedCreateOrderChangesNothing ==
    [][(result'.op = "create_order" /\ result'.raised)
          => (products' = products /\ orders' = orders)]_vars

\* C2: stock_quantity of every product is >= 0 in every state reachable by
\* add_product (with stock >= 0), update_stock, update_product_stock and
\* create_order calls, failed ones included.
C2_StockNeverNegative ==
    \A p \in DOMAIN products : products[p].stock_quantity >= 0

\* A create_order call has raised in its stock loop: its order is stored with
\* two lines of one product, whose stock the first line took to 0.
C2_Witness ==
    /\ result.op = "create_order" /\ result.raised
    /\ \E i \in DOMAIN orders :
          /\ Len(orders[i].items) = 2
          /\ orders[i].items[1].product_id = orders[i].items[2].product_id
          /\ orders[i].items[1].quantity = 1 /\ orders[i].items[2].quantity = 1
          /\ products[orders[i].items[1].product_id].stock_quantity = 0

\* C3: the n-th stored order has id ORD- followed by n zero-padded to 6
\* digits, ids increase strictly in order of creation, and create_order never
\* overwrites a stored order.
OrderNumber(order_id) ==
    LET digit(ch) == (CHOOSE d \in 1..10 : DigitChars[d] = ch) - 1
    IN SumFn([k \in 5..Len(order_id) |->
                digit(order_id[k]) * (10 ^ (Len(order_id) - k))])

C3_IdsSequential ==
    /\ \A n \in DOMAIN orders :
          /\ n < 10 => orders[n].order_id =
                          <<"O", "R", "D", "-", "0", "0", "0", "0", "0", DigitChars[n + 1]>>
          /\ OrderNumber(orders[n].order_id) = n
    /\ \A i, j \in DOMAIN orders :
          i < j => OrderNumber(orders[i].order_id) < OrderNumber(orders[j].order_id)

C3_NeverOverwrites ==
    result'.op = "create_order"
        => /\ Len(orders') >= Len(orders)
           /\ \A i \in DOMAIN orders :
                 orders'[i] = orders[i]

C3_OrderIds == [](C3_IdsSequential) /\ [][C3_NeverOverwrites]_vars

C3_Witness ==
    /\ Len(orders) = 2
    /\ orders[1].order_id = <<"O", "R", "D", "-", "0", "0", "0", "0", "0", "1">>
    /\ orders[2].order_id = <<"O", "R", "D", "-", "0", "0", "0", "0", "0", "2">>
    /\ result.op = "create_order"

\* C4: update_stock(delta) fails iff stock_quantity + delta < 0; on failure
\* stock_quantity is unchanged; on success it is the old value plus delta,
\* and that value is returned.
C4_OnEveryProduct ==
    \A p \in DOMAIN products, q \in Deltas :
        LET old == products[p].stock_quantity
            r == update_stock(products[p], q)
        IN /\ r.raised <=> old + q < 0
           /\ r.raised => (r.self = products[p] /\ r.value = None)
           /\ ~r.raised => /\ r.self = [products[p] EXCEPT !.stock_quantity = old + q]
                           /\ r.value = <<old + q>>

C4_OnEveryCall ==
    result'.op = "update_stock"
        => IF result'.raised
           THEN products' = products
           ELSE \E p \in DOMAIN products, q \in Deltas :
                   /\ products[p].stock_quantity + q >= 0
                   /\ products' =
                        [products EXCEPT ![p].stock_quantity = products[p].stock_quantity + q]
                   /\ result'.value = <<products[p].stock_quantity + q>>

C4_UpdateStock == [](C4_OnEveryProduct) /\ [][C4_OnEveryCall]_vars

\* update_stock has just failed on a product whose stock is 0.
C4_Witness ==
    /\ result.op = "update_stock" /\ result.raised
    /\ \E p \in DOMAIN products : products[p].stock_quantity = 0

\* C5: for a customer whose orders are exactly one cancelled and one
\* confirmed order, get_customer_analytics returns total_orders = 2,
\* total_spent = the confirmed order's total and average_order_value = the
\* confirmed order's total.
C5_AverageIsConfirmedTotal ==
    \A c \in DOMAIN customers :
        LET mine == {i \in DOMAIN orders : orders[i].customer.customer_id = c}
        IN \A i, j \in mine :
              (/\ mine = {i, j} /\ i # j
               /\ orders[i].status = "cancelled" /\ orders[j].status = "confirmed")
              => get_customer_analytics(c) =
                    <<[total_orders |-> 2,
                       total_spent |-> SumFn(LineTotals(orders[j])),
                       average_order_value |-> SumFn(LineTotals(orders[j]))]>>

\* C6: calculate_revenue with no date bounds is the sum of the totals of
\* exactly the stored orders whose status is confirmed, shipped or delivered.
C6_RevenueIsSumOfFulfilled ==
    calculate_revenue(None, None) =
        SumFn([i \in {k \in DOMAIN orders :
                        orders[k].status \in {"confirmed", "shipped", "delivered"}}
                 |-> SumFn(LineTotals(orders[i]))])

\* A shipped order and a pending or cancelled one, both with a total > 0.
C6_Witness ==
    \E i, j \in DOMAIN orders :
        /\ orders[i].status = "shipped" /\ SumFn(LineTotals(orders[i])) > 0
        /\ orders[j].status \in {"pending", "cancelled"}
        /\ SumFn(LineTotals(orders[j])) > 0
        /\ calculate_revenue(None, None) > 0

\* C7: the total of a stored order is the same before and after any later
\* apply_discount, update_stock or create_order call, each item's unit_price
\* being the product's price when the order was created.
OrderTotals == [i \in DOMAIN orders |-> calculate_total(orders[i])]

C7_Step ==
    /\ \A i \in DOMAIN orders :
          i \in DOMAIN orders' /\ OrderTotals'[i] = OrderTotals[i]
    /\ (result'.op = "create_order" /\ Len(orders') > Len(orders))
          => \A item \in Range(orders'[Len(orders')].items) :
                item.unit_price = products[item.product_id].price

C7_TotalFixedAtCreation == [][C7_Step]_vars

\* A discount has just been applied to a product that a stored order holds
\* at its earlier, higher price.
C7_Witness ==
    /\ result.op = "apply_discount" /\ ~result.raised
    /\ \E i \in DOMAIN orders : \E item \in Range(orders[i].items) :
          item.unit_price > products[item.product_id].price

\* C8: every order's status is one of the five; it is pending when
\* create_order returns; update_status with a value outside the set fails and
\* changes nothing; with a value in the set it succeeds from any status.
FiveStatuses == {"pending", "confirmed", "shipped", "delivered", "cancelled"}

C8_OnEveryOrder ==
    \A i \in DOMAIN orders :
        /\ orders[i].status \in FiveStatuses
        /\ \A s \in StatusInputs :
              LET r == update_status(orders[i], s)
              IN IF s \in FiveStatuses
                 THEN ~r.raised /\ r.self = [orders[i] EXCEPT !.status = s]
                 ELSE r.raised /\ r.self = orders[i]

C8_OnEveryCall ==
    /\ (result'.op = "create_order" /\ Len(orders') > Len(orders))
          => orders'[Len(orders')].status = "pending"
    /\ (result'.op = "update_status" /\ result'.raised) => orders' = orders
    /\ (result'.op = "update_status" /\ ~result'.raised)
          => \E i \in DOMAIN orders, s \in FiveStatuses :
                orders' = [orders EXCEPT ![i].status = s]

C8_Status == [](C8_OnEveryOrder) /\ [][C8_OnEveryCall]_vars

\* update_status has just rejected a value while one order is delivered and
\* another is cancelled.
C8_Witness ==
    /\ result.op = "update_status" /\ result.raised
    /\ \E i, j \in DOMAIN orders :
          orders[i].status = "delivered" /\ orders[j].status = "cancelled"

\* C9: search_products returns exactly the products that satisfy every
\* supplied filter, for every supplied value (0 included); a filter that is
\* not supplied imposes no constraint.
Optional(S) == {None} \cup {<<v>> : v \in S}

C9_SearchHonoursEveryFilter ==
    \A category \in Optional(Categories),
       min_price \in Optional(0..MaxPrice),
       max_price \in Optional(0..MaxPrice) :
        search_products(category, min_price, max_price) =
            {product \in Range(products) :
                /\ category # None => product.category = category[1]
                /\ min_price # None => product.price >= min_price[1]
                /\ max_price # None => product.price <= max_price[1]}

\* C10: every item of every stored order has a quantity >= 1.
C10_QuantitiesPositive ==
    \A i \in DOMAIN orders : \A item \in Range(orders[i].items) : item.quantity >= 1
====
